---- MODULE Spec2Model ----
(***************************************************************************)
(* A model of the retrieval-and-archival pipeline of datamule:             *)
(*   - Downloader.process_batch, download_and_process, the pool jobs and   *)
(*     TarManager (datamule/datamule/downloader.py),                       *)
(*   - PreciseRateLimiter (sec/utils.py),                                  *)
(*   - Streamer (sec/submissions/streamer.py),                             *)
(*   - format_accession (utils/format_accession.py).                      *)
(***************************************************************************)
EXTENDS Integers, Sequences, FiniteSets, TLC

(***************************************************************************)
(* Bounds of the model.                                                    *)
(***************************************************************************)
\* number of urls handed to process_batch
MaxTargets == 2
\* number of write_submission calls made on one TarManager in SpecTar
NumWrites == 3
\* the max_batch_size argument (the size ceiling of one shard file)
MaxBatchSize == 3
\* number of concurrent callers of PreciseRateLimiter.acquire
NumCallers == 3
\* interval / rate of the limiter, in clock ticks
TokenTime == 2
\* length of the accession_numbers list given to Downloader.download
MaxList == 3
\* page requests that query() puts in fetch_queue
NumPages == 3
\* hits of one page of search results
PageSize == 2
\* query workers started by query()
NumQueryWorkers == 2
\* number of urls in the runs of SpecCap: more than the cap of the semaphore
NumCapTargets == 11
\* number of format_accession calls chained on one accession in SpecFormat
MaxApply == 2
\* number of filter calls made on one Portfolio in SpecPortfolio
MaxFilters == 3
\* number of accession numbers the filters can return
NumAccessions == 2
\* RateMonitor(window_size), in ticks of the clock
WindowSize == 2

(***************************************************************************)
(* Program constants.                                                      *)
(***************************************************************************)
MAX_CONCURRENT_DOWNLOADS == 10
\* cpu_count(): the machine of the model has two processors
MAX_DECOMPRESSION_WORKERS == 2
MAX_TAR_WORKERS == 2

VARIABLES
    \* ---- Downloader.process_batch and its fetch tasks
    urls,            \* len(urls): the targets are 1..urls
    api_key,         \* whether Downloader.api_key is a non-empty string
    hashv,           \* hash(filename) of this process, per target
    pb_pc,           \* where process_batch is
    tpc,             \* where each target's task / pool job / write call is
    ctype,           \* the response's Content-Type, per target
    semaphore,       \* free slots of the asyncio.Semaphore
    pbar,            \* the progress counter (tqdm)
    errors_json,     \* content of output_dir/errors.json: target -> message
    errs_local,      \* the dict `errors` a running _log_error has read
    log_msg,         \* the error_msg of a running _log_error
    success,         \* result of the pool job / write_submission, per target
    unauthorized,    \* some response had status 401
    \* ---- TarManager
    num_tar_files,
    tar_files,       \* shard -> index in archive[shard] of the open handle
    tar_locks,       \* shard -> target holding the lock, 0 when free
    file_counters,
    tar_sizes,
    tar_sequences,
    archive,         \* shard -> the files created, each [seq, closed, entries]
    rec,             \* (metadata, documents) of a target, as sizes
    ws_k,            \* documents already added by a running write_submission
    \* ---- PreciseRateLimiter
    clock,           \* time.time(), in ticks
    last_time,
    rl_lock,         \* asyncio.Lock: the caller holding it, 0 when free
    rl_waiters,      \* asyncio.Lock: the callers waiting, first come first
    rl_pc,           \* where each caller of acquire() is
    wake_at,         \* when the sleep of line 95 ends, per caller
    grants,          \* the values of last_time set at line 96, in order
    rl_order,        \* the callers in the order of their calls of acquire()
    \* ---- RateMonitor
    rm_requests,     \* the deque `requests`: the times of the samples
    rm_lock,         \* RateMonitor._lock: 0, or the task that holds it
    rm_pc,           \* where each task using the monitor is
    \* ---- TarManager.close_all
    ca_pc,           \* where the call of close_all is
    ca_todo,         \* the shards the loop of line 202 has not reached yet
    ca_attempted,    \* the shards whose close was called
    ca_log,          \* the shards of the `Error closing tar` log lines
    \* ---- Portfolio
    pf_has,          \* whether the Portfolio has the attribute accession_numbers
    pf_accession_numbers,    \* Portfolio.accession_numbers
    pf_calls,        \* the filters applied so far, each with its result
    pf_filtered,     \* filtered_accession_numbers of the latest download_submissions
    \* ---- Downloader.download
    dd_pc,
    accession_numbers,   \* the argument: a list of accessions
    dd_filing,       \* the filing each element of the argument names
    dd_made,         \* the url built for each element of the argument
    dd_urls,         \* the list `urls`
    \* ---- format_accession
    fa_filing,       \* the filing that the first argument names
    fa_value,        \* the value passed on from one call to the next
    fa_formats,      \* the formats asked for so far
    \* ---- Streamer
    st_pc,           \* where stream() is
    quiet,
    st_accession_numbers,    \* Streamer.accession_numbers, the allow-list
    skip_accession_numbers,
    last_hits,       \* the latest call of document_download_callback
    printed,         \* the targets whose failure was printed
    fetch_queue,     \* the page requests waiting, first in first out
    page_pc,         \* where the query worker holding each page is
    document_queue,  \* the targets waiting, first in first out
    doc_unfinished,  \* document_queue: targets put and not yet marked done
    doc_pc,          \* where each target is
    query_paused,
    download_in_progress,
    document_pbar,   \* whether the progress bar exists
    documents_processed,
    total_documents,
    skipped_documents

dlVars == <<urls, api_key, hashv, pb_pc, tpc, ctype, semaphore, pbar,
            errors_json, errs_local, log_msg, success, unauthorized>>
tarVars == <<num_tar_files, tar_files, tar_locks, file_counters, tar_sizes,
             tar_sequences, archive, rec, ws_k>>
rmVars == <<rm_requests, rm_lock, rm_pc>>
caVars == <<ca_pc, ca_todo, ca_attempted, ca_log>>
pfVars == <<pf_has, pf_accession_numbers, pf_calls, pf_filtered>>
rlVars == <<clock, last_time, rl_lock, rl_waiters, rl_pc, wake_at, grants,
           rl_order, rmVars, caVars, pfVars>>
ddVars == <<dd_pc, accession_numbers, dd_filing, dd_made, dd_urls,
           fa_filing, fa_value, fa_formats>>
stConf == <<quiet, st_accession_numbers, skip_accession_numbers>>
stVars == <<st_pc, stConf, last_hits, printed, fetch_queue, page_pc, document_queue,
            doc_unfinished, doc_pc, query_paused, download_in_progress,
            document_pbar, documents_processed, total_documents,
            skipped_documents>>
vars == <<dlVars, tarVars, rlVars, ddVars, stVars>>

(***************************************************************************)
(* Helpers.                                                                *)
(***************************************************************************)
Min(a, b) == IF a < b THEN a ELSE b

RECURSIVE SumSeq(_)
SumSeq(s) == IF s = <<>> THEN 0 ELSE Head(s) + SumSeq(Tail(s))

NoEntry == "none"
NoRecord == [meta |-> 0, docs |-> <<>>]

\* What parse_sgml_content_into_memory can return, as byte lengths: the
\* length of the serialized metadata and the lengths of the documents.
\* One record fills a file on its own and overflows it with its document.
Records == {[meta |-> 1, docs |-> <<>>], [meta |-> 1, docs |-> <<1>>],
            [meta |-> MaxBatchSize, docs |-> <<1>>]}

ContentTypes == {"application/zstd", "other"}

Targets == DOMAIN tpc
Shards == 0 .. (num_tar_files - 1)

(***************************************************************************)
(* Downloader._log_error (downloader.py 81-96): read-merge-write of        *)
(* errors.json.  The read and the write are two steps; nothing orders a    *)
(* call on a pool thread against a call on the event-loop thread.          *)
(***************************************************************************)
LogRead(t, msg) ==
    /\ errs_local' = [errs_local EXCEPT ![t] = errors_json]
    /\ log_msg' = [log_msg EXCEPT ![t] = msg]

LogWrite(t) ==
    /\ errors_json' = [errs_local[t] EXCEPT ![t] = log_msg[t]]
    /\ errs_local' = [errs_local EXCEPT ![t] = [u \in Targets |-> NoEntry]]
    /\ log_msg' = [log_msg EXCEPT ![t] = NoEntry]

(***************************************************************************)
(* TarManager (downloader.py 98-206).                                      *)
(***************************************************************************)
\* TarManager.__init__ (101-123): one open file batch_i_001 per shard.
TarManagerInit(n) ==
    /\ num_tar_files' = n
    /\ tar_files' = [i \in 0 .. (n - 1) |-> 1]
    /\ tar_locks' = [i \in 0 .. (n - 1) |-> 0]
    /\ file_counters' = [i \in 0 .. (n - 1) |-> 0]
    /\ tar_sizes' = [i \in 0 .. (n - 1) |-> 0]
    /\ tar_sequences' = [i \in 0 .. (n - 1) |-> 1]
    /\ archive' = [i \in 0 .. (n - 1) |->
                      << [seq |-> 1, closed |-> FALSE, entries |-> <<>>] >>]

\* a shard chosen by its load: the least filled one
get_tar_index_LeastFilled(t) ==
    CHOOSE i \in Shards : \A j \in Shards : tar_sizes[i] <= tar_sizes[j]

\* get_tar_index (125-127)
get_tar_index(t) == hashv[t] % num_tar_files

\* line 142
submission_size(r) == r.meta + SumSeq(r.docs)

\* line 145 comparing the record alone with the ceiling
NeedsRollover_RecordAlone(i, size) ==
    size > MaxBatchSize

\* line 145 without its first conjunct
NeedsRollover_AlsoWhenEmpty(i, size) ==
    tar_sizes[i] + size > MaxBatchSize

\* line 145 comparing the size so far with the ceiling
NeedsRollover_SizeSoFar(i, size) ==
    tar_sizes[i] > MaxBatchSize

\* the condition of line 145
NeedsRollover(i, size) ==
    tar_sizes[i] > 0 /\ tar_sizes[i] + size > MaxBatchSize

\* tar.close(): the handle is closed, also when close() raises
\* (tarfile sets `closed` first and closes the file object in a finally).
CloseHandle(arch, i, h) == [arch EXCEPT ![i][h].closed = TRUE]

\* leaving the `with self.tar_locks[tar_index]` block, by return or by raise
ReleaseLock(i) == tar_locks' = [tar_locks EXCEPT ![i] = 0]

\* the locals of a write_submission call are gone when it returns or raises
WsLocalsGone(t) ==
    /\ rec' = [rec EXCEPT ![t] = NoRecord]
    /\ ws_k' = [ws_k EXCEPT ![t] = 0]

\* write_submission raises to its caller
WsRaise(t) ==
    /\ tpc' = [tpc EXCEPT ![t] = "ws_raised"]
    /\ WsLocalsGone(t)

\* write_submission returns False (172-174)
WsReturnFalse(t, i) ==
    /\ tpc' = [tpc EXCEPT ![t] = "ws_returned"]
    /\ success' = [success EXCEPT ![t] = FALSE]
    /\ ReleaseLock(i)
    /\ WsLocalsGone(t)
    /\ UNCHANGED <<file_counters, tar_sizes>>

\* lines 168-170: count the record, return True
WsCommit(t, i) ==
    /\ tpc' = [tpc EXCEPT ![t] = "ws_returned"]
    /\ success' = [success EXCEPT ![t] = TRUE]
    /\ file_counters' = [file_counters EXCEPT ![i] = @ + 1]
    /\ tar_sizes' = [tar_sizes EXCEPT ![i] = @ + submission_size(rec[t])]
    /\ ReleaseLock(i)
    /\ WsLocalsGone(t)

\* lines 146-153: close the full file, open the next one
Rollover(i, h) ==
    /\ tar_sequences' = [tar_sequences EXCEPT ![i] = @ + 1]
    /\ archive' = [CloseHandle(archive, i, h) EXCEPT ![i] =
            Append(@, [seq |-> tar_sequences[i] + 1,
                       closed |-> FALSE, entries |-> <<>>])]
    /\ tar_files' = [tar_files EXCEPT ![i] = Len(archive[i]) + 1]
    /\ file_counters' = [file_counters EXCEPT ![i] = 0]
    /\ tar_sizes' = [tar_sizes EXCEPT ![i] = 0]

\* write_submission, lines 137-155: serialize the metadata, take the
\* shard's lock, roll the shard over when the record does not fit.
WsBegin(t) ==
    /\ tpc[t] = "ws_begin"
    /\ LET i == get_tar_index(t)
           size == submission_size(rec[t])
           h == tar_files[i]
       IN
       \/ \* bytes_to_str / json.dumps raises (140-141), before the lock
          /\ WsRaise(t)
          /\ UNCHANGED <<tar_files, tar_locks, file_counters, tar_sizes,
                         tar_sequences, archive>>
       \/ /\ tar_locks[i] = 0
          /\ NeedsRollover(i, size)
          /\ \/ \* tar.close() raises (147): the lock is released
                /\ ~archive[i][h].closed
                /\ archive' = CloseHandle(archive, i, h)
                /\ WsRaise(t)
                /\ UNCHANGED <<tar_files, tar_locks, file_counters,
                               tar_sizes, tar_sequences>>
             \/ \* tarfile.open raises (151): the lock is released
                /\ archive' = CloseHandle(archive, i, h)
                /\ tar_sequences' = [tar_sequences EXCEPT ![i] = @ + 1]
                /\ WsRaise(t)
                /\ UNCHANGED <<tar_files, tar_locks, file_counters,
                               tar_sizes>>
             \/ /\ Rollover(i, h)
                /\ tar_locks' = [tar_locks EXCEPT ![i] = t]
                /\ tpc' = [tpc EXCEPT ![t] = "ws_try"]
                /\ UNCHANGED <<rec, ws_k>>
       \/ /\ tar_locks[i] = 0
          /\ ~NeedsRollover(i, size)
          /\ tar_locks' = [tar_locks EXCEPT ![i] = t]
          /\ tpc' = [tpc EXCEPT ![t] = "ws_try"]
          /\ UNCHANGED <<tar_files, file_counters, tar_sizes, tar_sequences,
                         archive, rec, ws_k>>
    /\ UNCHANGED <<num_tar_files, success>>

\* tar.addfile of one entry
AddEntry(i, t, kind, size) ==
    archive' = [archive EXCEPT ![i][tar_files[i]].entries =
                   Append(@, [rec |-> t, kind |-> kind, size |-> size])]

\* lines 158-160 with the shard's lock given up after the metadata.json entry
WsAddMetadata_LockDropped(t) ==
    /\ tpc[t] = "ws_try"
    /\ LET i == get_tar_index(t) IN
       \/ \* addfile raises: the handle is closed, or the write fails
          /\ WsReturnFalse(t, i)
          /\ UNCHANGED archive
       \/ /\ ~archive[i][tar_files[i]].closed
          /\ AddEntry(i, t, "metadata", rec[t].meta)
          /\ IF rec[t].docs = <<>>
             THEN WsCommit(t, i)
             ELSE /\ tpc' = [tpc EXCEPT ![t] = "ws_docs"]
                  /\ ReleaseLock(i)
                  /\ UNCHANGED <<success, file_counters, tar_sizes,
                                 rec, ws_k>>
    /\ UNCHANGED <<num_tar_files, tar_files, tar_sequences>>

\* lines 158-160: the metadata.json entry
WsAddMetadata(t) ==
    /\ tpc[t] = "ws_try"
    /\ LET i == get_tar_index(t) IN
       \/ \* addfile raises: the handle is closed, or the write fails
          /\ WsReturnFalse(t, i)
          /\ UNCHANGED archive
       \/ /\ ~archive[i][tar_files[i]].closed
          /\ AddEntry(i, t, "metadata", rec[t].meta)
          /\ IF rec[t].docs = <<>>
             THEN WsCommit(t, i)
             ELSE /\ tpc' = [tpc EXCEPT ![t] = "ws_docs"]
                  /\ UNCHANGED <<success, file_counters, tar_sizes,
                                 tar_locks, rec, ws_k>>
    /\ UNCHANGED <<num_tar_files, tar_files, tar_sequences>>

\* lines 162-166: one turn of the loop over the documents
WsAddDocument(t) ==
    /\ tpc[t] = "ws_docs"
    /\ LET i == get_tar_index(t)
           k == ws_k[t] + 1
       IN
       \/ \* _get_document_name raises (163, 192-198)
          /\ WsReturnFalse(t, i)
          /\ UNCHANGED archive
       \/ \* addfile raises (166)
          /\ WsReturnFalse(t, i)
          /\ UNCHANGED archive
       \/ /\ AddEntry(i, t, "document", rec[t].docs[k])
          /\ IF k = Len(rec[t].docs)
             THEN WsCommit(t, i)
             ELSE /\ ws_k' = [ws_k EXCEPT ![t] = k]
                  /\ UNCHANGED <<tpc, success, file_counters, tar_sizes,
                                 tar_locks, rec>>
    /\ UNCHANGED <<num_tar_files, tar_files, tar_sequences>>

\* close_all (200-206): every shard's current handle is closed; a close
\* that raises is logged and still leaves its handle closed.
close_all == [i \in DOMAIN archive |-> [archive[i] EXCEPT ![tar_files[i]].closed = TRUE]]


(***************************************************************************)
(* Downloader.download_and_process (downloader.py 277-340): one task per   *)
(* url on the event loop.  Between two awaits a task runs alone on the     *)
(* loop; the pool jobs run on their own threads.                           *)
(***************************************************************************)
LoopLogging == {"log_auth", "log_status", "log_exc", "log_fail"}

\* no task is inside a synchronous section of the event loop
LoopFree == \A u \in Targets : tpc[u] \notin LoopLogging

\* jobs that occupy a thread of decompression_pool
PoolBusy == {u \in Targets :
                tpc[u] \in {"ws_begin", "ws_try", "ws_docs", "ws_raised", "pool_log"}}

\* targets whose GET has been issued
Dispatched == {u \in Targets : tpc[u] \notin {"pending", "raised"}}

\* the message of the except clauses of the two pool functions (240, 274)
PoolErrorMsg(t) ==
    IF ctype[t] = "application/zstd"
    THEN "Decompression/parsing error" ELSE "Parsing error"

\* leaving `async with semaphore` after pbar.update(1) (336, 340)
TaskFinish(t) ==
    /\ pbar' = pbar + 1
    /\ ctype' = [ctype EXCEPT ![t] = "none"]
    /\ semaphore' = semaphore + 1
    /\ tpc' = [tpc EXCEPT ![t] = "done"]

\* download_and_process entered without `async with semaphore`
TaskStart_NoSemaphore(t) ==
    /\ pb_pc = "gather"
    /\ tpc[t] = "pending"
    /\ \A u \in Targets : u < t => tpc[u] # "pending"
    /\ LoopFree
    /\ IF api_key
       THEN /\ tpc' = [tpc EXCEPT ![t] = "requesting"]
            /\ semaphore' = semaphore - 1
       ELSE /\ tpc' = [tpc EXCEPT ![t] = "raised"]
            /\ UNCHANGED semaphore
    /\ UNCHANGED <<urls, api_key, hashv, pb_pc, ctype, pbar, errors_json,
                   errs_local, log_msg, success, unauthorized>>
    /\ UNCHANGED tarVars

\* lines 291-306: take a slot, check the key, issue the GET.  gather starts
\* the tasks in the order of `urls`, and the semaphore wakes its waiters
\* first come, first served.
TaskStart(t) ==
    /\ pb_pc = "gather"
    /\ tpc[t] = "pending"
    /\ \A u \in Targets : u < t => tpc[u] # "pending"
    /\ LoopFree
    /\ semaphore > 0
    /\ IF api_key
       THEN /\ tpc' = [tpc EXCEPT ![t] = "requesting"]
            /\ semaphore' = semaphore - 1
       ELSE \* raise ValueError (297), outside the try: the slot is given
            \* back and the exception ends the task
            /\ tpc' = [tpc EXCEPT ![t] = "raised"]
            /\ UNCHANGED semaphore
    /\ UNCHANGED <<urls, api_key, hashv, pb_pc, ctype, pbar, errors_json,
                   errs_local, log_msg, success, unauthorized>>
    /\ UNCHANGED tarVars

\* lines 306-334 and 338-339: the response arrives (or the request fails)
TaskResponse(t) ==
    /\ tpc[t] = "requesting"
    /\ LoopFree
    /\ \/ \* status 200, body streamed, job handed to the pool (309-325)
          /\ \E ct \in ContentTypes : ctype' = [ctype EXCEPT ![t] = ct]
          /\ tpc' = [tpc EXCEPT ![t] = "queued"]
          /\ UNCHANGED <<errs_local, log_msg, unauthorized>>
       \/ \* status 401 (330-332)
          /\ unauthorized' = TRUE
          /\ LogRead(t, "Authentication failed: Invalid API key")
          /\ tpc' = [tpc EXCEPT ![t] = "log_auth"]
          /\ UNCHANGED ctype
       \/ \* any other status (333-334)
          /\ LogRead(t, "Download failed: Status")
          /\ tpc' = [tpc EXCEPT ![t] = "log_status"]
          /\ UNCHANGED <<ctype, unauthorized>>
       \/ \* the request or the streaming of the body raises (338-339)
          /\ LogRead(t, "exception")
          /\ tpc' = [tpc EXCEPT ![t] = "log_exc"]
          /\ UNCHANGED <<ctype, unauthorized>>
    /\ UNCHANGED <<urls, api_key, hashv, pb_pc, semaphore, pbar, errors_json,
                   success>>
    /\ UNCHANGED tarVars

\* the write of a _log_error running on the event loop, and what follows
\* it up to the end of the task
TaskLogWrite(t) ==
    /\ tpc[t] \in LoopLogging
    /\ IF tpc[t] = "log_auth"
       THEN \* raise ValueError("Invalid API key") (332), caught at 338:
            \* _log_error(str(e)) reads the file again
            /\ errors_json' = [errs_local[t] EXCEPT ![t] = log_msg[t]]
            /\ errs_local' = [errs_local EXCEPT ![t] = errors_json']
            /\ log_msg' = [log_msg EXCEPT ![t] = "Invalid API key"]
            /\ tpc' = [tpc EXCEPT ![t] = "log_exc"]
            /\ UNCHANGED <<pbar, semaphore, ctype>>
       ELSE /\ LogWrite(t)
            /\ TaskFinish(t)
    /\ UNCHANGED <<urls, api_key, hashv, pb_pc, success, unauthorized>>
    /\ UNCHANGED tarVars

\* decompress_and_parse_and_write / parse_and_write_regular_file up to the
\* call of write_submission (219-234, 260-268), on a pool thread
PoolParse(t) ==
    /\ tpc[t] = "queued"
    /\ Cardinality(PoolBusy) < MAX_DECOMPRESSION_WORKERS
    /\ \/ \* the zstd stream does not decompress
          /\ ctype[t] = "application/zstd"
          /\ LogRead(t, PoolErrorMsg(t))
          /\ tpc' = [tpc EXCEPT ![t] = "pool_log"]
          /\ UNCHANGED rec
       \/ \* parse_sgml_content_into_memory raises
          /\ LogRead(t, PoolErrorMsg(t))
          /\ tpc' = [tpc EXCEPT ![t] = "pool_log"]
          /\ UNCHANGED rec
       \/ /\ \E r \in Records : rec' = [rec EXCEPT ![t] = r]
          /\ tpc' = [tpc EXCEPT ![t] = "ws_begin"]
          /\ UNCHANGED <<errs_local, log_msg>>
    /\ UNCHANGED <<urls, api_key, hashv, pb_pc, ctype, semaphore, pbar,
                   errors_json, success, unauthorized>>
    /\ UNCHANGED <<num_tar_files, tar_files, tar_locks, file_counters,
                   tar_sizes, tar_sequences, archive, ws_k>>

\* an exception of write_submission reaches the except clause (239, 273)
PoolCatch(t) ==
    /\ pb_pc = "gather"
    /\ tpc[t] = "ws_raised"
    /\ LogRead(t, PoolErrorMsg(t))
    /\ tpc' = [tpc EXCEPT ![t] = "pool_log"]
    /\ UNCHANGED <<urls, api_key, hashv, pb_pc, ctype, semaphore, pbar,
                   errors_json, success, unauthorized>>
    /\ UNCHANGED tarVars

\* the write of the pool thread's _log_error, then `return False` (241, 275)
PoolLogWrite(t) ==
    /\ tpc[t] = "pool_log"
    /\ LogWrite(t)
    /\ success' = [success EXCEPT ![t] = FALSE]
    /\ tpc' = [tpc EXCEPT ![t] = "pool_logged"]
    /\ UNCHANGED <<urls, api_key, hashv, pb_pc, ctype, semaphore, pbar,
                   unauthorized>>
    /\ UNCHANGED tarVars

\* the await of run_in_executor returns (316-328, 336)
TaskAfterPool(t) ==
    /\ pb_pc = "gather"
    /\ tpc[t] \in {"ws_returned", "pool_logged"}
    /\ LoopFree
    /\ IF success[t]
       THEN /\ TaskFinish(t)
            /\ UNCHANGED <<errs_local, log_msg>>
       ELSE /\ LogRead(t, "Failed to process file")
            /\ tpc' = [tpc EXCEPT ![t] = "log_fail"]
            /\ UNCHANGED <<pbar, semaphore, ctype>>
    /\ UNCHANGED <<urls, api_key, hashv, pb_pc, errors_json, success,
                   unauthorized>>
    /\ UNCHANGED tarVars

(***************************************************************************)
(* Downloader.process_batch (downloader.py 342-385).                       *)
(***************************************************************************)
\* lines 352-379: the TarManager is built, then, inside the try, the
\* progress bar, the semaphore, the pool, the connector and the session
PbStart ==
    /\ pb_pc = "start"
    /\ TarManagerInit(Min(MAX_TAR_WORKERS, urls))
    /\ \/ pb_pc' = "gather"
       \/ \* one of the constructors of 359-371 raises
          pb_pc' = "finally_raise"
    /\ UNCHANGED <<urls, api_key, hashv, tpc, ctype, semaphore, pbar,
                   errors_json, errs_local, log_msg, success, unauthorized>>
    /\ UNCHANGED <<rec, ws_k>>

\* lines 380-382 waiting for the first task to end only
PbGather_FirstCompleted ==
    /\ pb_pc = "gather"
    /\ \E t \in Targets : tpc[t] \in {"done", "raised"}
    /\ \/ pb_pc' = "finally_ok"
       \/ pb_pc' = "finally_raise"
    /\ UNCHANGED <<urls, api_key, hashv, tpc, ctype, semaphore, pbar,
                   errors_json, errs_local, log_msg, success, unauthorized>>
    /\ UNCHANGED tarVars

\* lines 380-382: gather(return_exceptions=True) returns when every task
\* has ended; the session is left and the pool shut down
PbGather ==
    /\ pb_pc = "gather"
    /\ \A t \in Targets : tpc[t] \in {"done", "raised"}
    /\ \/ pb_pc' = "finally_ok"
       \/ \* leaving the session or decompression_pool.shutdown() raises
          pb_pc' = "finally_raise"
    /\ UNCHANGED <<urls, api_key, hashv, tpc, ctype, semaphore, pbar,
                   errors_json, errs_local, log_msg, success, unauthorized>>
    /\ UNCHANGED tarVars

\* process_batch with `except`-less cleanup only on the normal path
PbFinally_OnlyOnSuccess ==
    /\ pb_pc \in {"finally_ok", "finally_raise"}
    /\ archive' = IF pb_pc = "finally_ok" THEN close_all ELSE archive
    /\ pb_pc' = IF pb_pc = "finally_ok" THEN "returned" ELSE "raised"
    /\ UNCHANGED <<urls, api_key, hashv, tpc, ctype, semaphore, pbar,
                   errors_json, errs_local, log_msg, success, unauthorized>>
    /\ UNCHANGED <<num_tar_files, tar_files, tar_locks, file_counters,
                   tar_sizes, tar_sequences, rec, ws_k>>

\* lines 384-385: finally: tar_manager.close_all()
PbFinally ==
    /\ pb_pc \in {"finally_ok", "finally_raise"}
    /\ archive' = close_all
    /\ pb_pc' = IF pb_pc = "finally_ok" THEN "returned" ELSE "raised"
    /\ UNCHANGED <<urls, api_key, hashv, tpc, ctype, semaphore, pbar,
                   errors_json, errs_local, log_msg, success, unauthorized>>
    /\ UNCHANGED <<num_tar_files, tar_files, tar_locks, file_counters,
                   tar_sizes, tar_sequences, rec, ws_k>>

\* the write_submission steps leave the Downloader's own state alone
WsStep(t) ==
    /\ WsBegin(t) \/ WsAddMetadata(t) \/ WsAddDocument(t)
    /\ UNCHANGED <<urls, api_key, hashv, pb_pc, ctype, semaphore, pbar,
                   errors_json, errs_local, log_msg, unauthorized>>

(***************************************************************************)
(* Spec: one run of process_batch.                                         *)
(***************************************************************************)
NoTar ==
    /\ num_tar_files = 0
    /\ tar_files = <<>>
    /\ tar_locks = <<>>
    /\ file_counters = <<>>
    /\ tar_sizes = <<>>
    /\ tar_sequences = <<>>
    /\ archive = <<>>

TargetsInit(n, pc0) ==
    /\ urls = n
    /\ hashv \in [1 .. n -> 0 .. (MAX_TAR_WORKERS - 1)]
    /\ tpc = [t \in 1 .. n |-> pc0]
    /\ ctype = [t \in 1 .. n |-> "none"]
    /\ semaphore = MAX_CONCURRENT_DOWNLOADS
    /\ pbar = 0
    /\ errors_json = [t \in 1 .. n |-> NoEntry]
    /\ errs_local = [t \in 1 .. n |-> [u \in 1 .. n |-> NoEntry]]
    /\ log_msg = [t \in 1 .. n |-> NoEntry]
    /\ success = [t \in 1 .. n |-> FALSE]
    /\ unauthorized = FALSE
    /\ rec = [t \in 1 .. n |-> NoRecord]
    /\ ws_k = [t \in 1 .. n |-> 0]

\* the parts of the program a specification does not run
\* a Portfolio just constructed: __init__ sets no accession_numbers
NoPortfolio ==
    /\ pf_has = FALSE
    /\ pf_accession_numbers = {}
    /\ pf_calls = <<>>
    /\ pf_filtered = [called |-> FALSE, given |-> FALSE, ids |-> {}]

NoMonitor ==
    /\ NoPortfolio
    /\ rm_requests = <<>>
    /\ rm_lock = 0
    /\ rm_pc = <<>>
    /\ ca_pc = "idle"
    /\ ca_todo = <<>>
    /\ ca_attempted = {}
    /\ ca_log = {}

NoLimiter ==
    /\ NoMonitor
    /\ clock = 0
    /\ last_time = 0
    /\ rl_lock = 0
    /\ rl_waiters = <<>>
    /\ rl_pc = <<>>
    /\ wake_at = <<>>
    /\ grants = <<>>
    /\ rl_order = <<>>

NoDownload ==
    /\ dd_pc = "unused"
    /\ accession_numbers = <<>>
    /\ dd_filing = <<>>
    /\ dd_made = <<>>
    /\ dd_urls = <<>>
    /\ fa_filing = <<>>
    /\ fa_value = <<>>
    /\ fa_formats = <<>>

\* Streamer.__init__ (109-120)
StreamerInit ==
    /\ fetch_queue = <<>>
    /\ page_pc = [p \in 1 .. NumPages |-> "none"]
    /\ last_hits = [page |-> 0, hits |-> <<>>]
    /\ printed = {}
    /\ document_queue = <<>>
    /\ doc_unfinished = 0
    /\ doc_pc = [d \in (1 .. NumPages) \X (1 .. PageSize) |-> "none"]
    /\ query_paused = FALSE
    /\ download_in_progress = FALSE
    /\ document_pbar = FALSE
    /\ documents_processed = 0
    /\ total_documents = 0
    /\ skipped_documents = 0

NoStreamer ==
    /\ st_pc = "unused"
    /\ quiet = FALSE
    /\ st_accession_numbers = [given |-> FALSE, ids |-> {}]
    /\ skip_accession_numbers = [given |-> FALSE, ids |-> {}]
    /\ StreamerInit

NoBatch ==
    /\ TargetsInit(0, "pending")
    /\ api_key = TRUE
    /\ pb_pc = "unused"
    /\ NoTar

Init ==
    /\ \E n \in 1 .. MaxTargets : TargetsInit(n, "pending")
    /\ api_key \in BOOLEAN
    /\ pb_pc = "start"
    /\ NoTar
    /\ NoLimiter
    /\ NoDownload
    /\ NoStreamer

Next ==
    \/ PbStart /\ UNCHANGED <<rlVars, ddVars, stVars>>
    \/ PbGather /\ UNCHANGED <<rlVars, ddVars, stVars>>
    \/ PbFinally /\ UNCHANGED <<rlVars, ddVars, stVars>>
    \/ \E t \in Targets : TaskStart(t) /\ UNCHANGED <<rlVars, ddVars, stVars>>
    \/ \E t \in Targets : TaskResponse(t) /\ UNCHANGED <<rlVars, ddVars, stVars>>
    \/ \E t \in Targets : TaskLogWrite(t) /\ UNCHANGED <<rlVars, ddVars, stVars>>
    \/ \E t \in Targets : PoolParse(t) /\ UNCHANGED <<rlVars, ddVars, stVars>>
    \/ \E t \in Targets : PoolCatch(t) /\ UNCHANGED <<rlVars, ddVars, stVars>>
    \/ \E t \in Targets : PoolLogWrite(t) /\ UNCHANGED <<rlVars, ddVars, stVars>>
    \/ \E t \in Targets : TaskAfterPool(t) /\ UNCHANGED <<rlVars, ddVars, stVars>>
    \/ \E t \in Targets : WsStep(t) /\ UNCHANGED <<rlVars, ddVars, stVars>>

Spec == Init /\ [][Next]_vars

(***************************************************************************)
(* SpecTar: one TarManager and NumWrites concurrent write_submission calls *)
(* on it, each with its own filename.                                      *)
(***************************************************************************)
\* TarManager(output_dir, num_tar_files, max_batch_size)
TarNew ==
    /\ pb_pc = "tar_new"
    /\ \E n \in 1 .. MAX_TAR_WORKERS : TarManagerInit(n)
    /\ pb_pc' = "tar_only"
    /\ UNCHANGED <<urls, api_key, hashv, tpc, ctype, semaphore, pbar,
                   errors_json, errs_local, log_msg, success, unauthorized>>
    /\ UNCHANGED <<rec, ws_k>>

\* a caller enters write_submission(filename, metadata, documents, ...).
\* The callers are the jobs of decompression_pool, so at most
\* MAX_DECOMPRESSION_WORKERS calls run at a time.  The callers are
\* interchangeable (every assignment of hash values to them is drawn), so
\* they are let in in the order of their numbers.
TarSubmit(t) ==
    /\ pb_pc = "tar_only"
    /\ tpc[t] = "idle"
    /\ \A u \in Targets : u < t => tpc[u] # "idle"
    /\ Cardinality(PoolBusy) < MAX_DECOMPRESSION_WORKERS
    /\ \E r \in Records : rec' = [rec EXCEPT ![t] = r]
    /\ tpc' = [tpc EXCEPT ![t] = "ws_begin"]
    /\ UNCHANGED <<urls, api_key, hashv, pb_pc, ctype, semaphore, pbar,
                   errors_json, errs_local, log_msg, success, unauthorized>>
    /\ UNCHANGED <<num_tar_files, tar_files, tar_locks, file_counters,
                   tar_sizes, tar_sequences, archive, ws_k>>

InitTar ==
    /\ TargetsInit(NumWrites, "idle")
    /\ api_key = TRUE
    /\ pb_pc = "tar_new"
    /\ NoTar
    /\ NoLimiter
    /\ NoDownload
    /\ NoStreamer

NextTar ==
    \/ TarNew /\ UNCHANGED <<rlVars, ddVars, stVars>>
    \/ \E t \in Targets : TarSubmit(t) /\ UNCHANGED <<rlVars, ddVars, stVars>>
    \/ \E t \in Targets : WsStep(t) /\ UNCHANGED <<rlVars, ddVars, stVars>>

SpecTar == InitTar /\ [][NextTar]_vars

(***************************************************************************)
(* SpecClose: the TarManager of SpecTar, and a call of close_all made when *)
(* no write_submission call is running (downloader.py 200-206), followed   *)
(* close by close.                                                         *)
(***************************************************************************)
OtherLimiterVars ==
    <<clock, last_time, rl_lock, rl_waiters, rl_pc, wake_at, grants, rl_order,
      rmVars, pfVars>>

\* close_all is called: the loop of line 202 goes through tar_files in the
\* order of its keys
CaStart ==
    /\ pb_pc = "tar_only"
    /\ PoolBusy = {}
    /\ pb_pc' = "closing"
    /\ ca_pc' = "loop"
    /\ ca_todo' = [k \in 1 .. num_tar_files |-> k - 1]
    /\ UNCHANGED <<ca_attempted, ca_log, archive>>

\* lines 203-206 with an exception of tar.close() left to end the loop
CaClose_AbortOnFailure ==
    /\ ca_pc = "loop"
    /\ ca_todo # <<>>
    /\ LET i == Head(ca_todo) IN
       /\ ca_attempted' = ca_attempted \cup {i}
       /\ archive' = CloseHandle(archive, i, tar_files[i])
       /\ \/ /\ ca_todo' = Tail(ca_todo)
             /\ ca_pc' = IF ca_todo' = <<>> THEN "returned" ELSE "loop"
             /\ UNCHANGED ca_log
          \/ /\ ca_pc' = "raised"
             /\ UNCHANGED <<ca_todo, ca_log>>
    /\ UNCHANGED pb_pc

\* lines 203-206: one turn of the loop; tar.close() returns, or raises and
\* is logged (the file object is closed in both cases)
CaClose ==
    /\ ca_pc = "loop"
    /\ ca_todo # <<>>
    /\ LET i == Head(ca_todo) IN
       /\ ca_attempted' = ca_attempted \cup {i}
       /\ archive' = CloseHandle(archive, i, tar_files[i])
       /\ ca_todo' = Tail(ca_todo)
       /\ ca_pc' = IF ca_todo' = <<>> THEN "returned" ELSE "loop"
       /\ \/ UNCHANGED ca_log
          \/ ca_log' = ca_log \cup {i}
    /\ UNCHANGED pb_pc

CaStep ==
    /\ CaStart \/ CaClose
    /\ UNCHANGED <<urls, api_key, hashv, tpc, ctype, semaphore, pbar,
                   errors_json, errs_local, log_msg, success, unauthorized>>
    /\ UNCHANGED <<num_tar_files, tar_files, tar_locks, file_counters,
                   tar_sizes, tar_sequences, rec, ws_k>>
    /\ UNCHANGED <<OtherLimiterVars, ddVars, stVars>>

NextClose == NextTar \/ CaStep

SpecClose == InitTar /\ [][NextClose]_vars


(***************************************************************************)
(* SpecCap: runs of process_batch with more urls than the semaphore has    *)
(* slots, in which every response has a status other than 200 and 401.    *)
(***************************************************************************)
InitCap ==
    /\ TargetsInit(NumCapTargets, "pending")
    /\ hashv = [t \in 1 .. NumCapTargets |-> 0]
    /\ api_key = TRUE
    /\ pb_pc = "start"
    /\ NoTar
    /\ NoLimiter
    /\ NoDownload
    /\ NoStreamer

NextCap ==
    \/ PbStart /\ UNCHANGED <<rlVars, ddVars, stVars>>
    \/ PbGather /\ UNCHANGED <<rlVars, ddVars, stVars>>
    \/ PbFinally /\ UNCHANGED <<rlVars, ddVars, stVars>>
    \/ \E t \in Targets : TaskStart(t) /\ UNCHANGED <<rlVars, ddVars, stVars>>
    \/ \E t \in Targets : TaskResponse(t) /\ tpc'[t] = "log_status"
                             /\ UNCHANGED <<rlVars, ddVars, stVars>>
    \/ \E t \in Targets : TaskLogWrite(t) /\ UNCHANGED <<rlVars, ddVars, stVars>>

SpecCap == InitCap /\ [][NextCap]_vars

(***************************************************************************)
(* SpecBadBody: the runs of process_batch in which every body handed to    *)
(* the pool fails in the decompression or in the parsing, so that          *)
(* write_submission is never called.                                       *)
(***************************************************************************)
NextBadBody ==
    \/ PbStart /\ UNCHANGED <<rlVars, ddVars, stVars>>
    \/ PbGather /\ UNCHANGED <<rlVars, ddVars, stVars>>
    \/ PbFinally /\ UNCHANGED <<rlVars, ddVars, stVars>>
    \/ \E t \in Targets : TaskStart(t) /\ UNCHANGED <<rlVars, ddVars, stVars>>
    \/ \E t \in Targets : TaskResponse(t) /\ UNCHANGED <<rlVars, ddVars, stVars>>
    \/ \E t \in Targets : TaskLogWrite(t) /\ UNCHANGED <<rlVars, ddVars, stVars>>
    \/ \E t \in Targets : PoolParse(t) /\ tpc'[t] = "pool_log"
                             /\ UNCHANGED <<rlVars, ddVars, stVars>>
    \/ \E t \in Targets : PoolLogWrite(t) /\ UNCHANGED <<rlVars, ddVars, stVars>>
    \/ \E t \in Targets : TaskAfterPool(t) /\ UNCHANGED <<rlVars, ddVars, stVars>>

SpecBadBody == Init /\ [][NextBadBody]_vars

(***************************************************************************)
(* PreciseRateLimiter (sec/utils.py 47-123).  Time is counted in ticks of  *)
(* a clock that only moves forward.                                        *)
(***************************************************************************)
\* self.token_time = self.interval / self.rate (77)
token_time == TokenTime

\* the clock is followed as far as every caller needs to be granted
MaxClock == (NumCallers + 1) * TokenTime

Callers == DOMAIN rl_pc

\* line 93 without the token time
wait_time_SinceLast(now) == last_time - now

\* line 93
wait_time(now) == last_time + token_time - now

\* time passes
Tick ==
    /\ clock < MaxClock
    /\ clock' = clock + 1
    /\ UNCHANGED <<last_time, rl_lock, rl_waiters, rl_pc, wake_at, grants,
                   rl_order>>

\* lines 96-97 and the end of `async with self.lock`: the grant
Grant(c) ==
    /\ last_time' = clock
    /\ grants' = Append(grants, clock)
    /\ rl_lock' = 0
    /\ rl_pc' = [rl_pc EXCEPT ![c] = "granted"]

\* lines 92-95, with the lock held
Evaluate(c) ==
    IF wait_time(clock) > 0
    THEN /\ wake_at' = [wake_at EXCEPT ![c] = clock + wait_time(clock)]
         /\ rl_pc' = [rl_pc EXCEPT ![c] = "sleeping"]
         /\ rl_lock' = c
         /\ UNCHANGED <<last_time, grants>>
    ELSE /\ Grant(c)
         /\ UNCHANGED wake_at

\* acquire() with a lock that is taken whenever it is free, whoever waits
Acquire_Barging(c) ==
    /\ rl_pc[c] = "idle"
    /\ IF rl_lock = 0
       THEN Evaluate(c) /\ UNCHANGED rl_waiters
       ELSE /\ rl_waiters' = Append(rl_waiters, c)
            /\ rl_pc' = [rl_pc EXCEPT ![c] = "waiting"]
            /\ UNCHANGED <<last_time, rl_lock, wake_at, grants>>
    /\ rl_order' = Append(rl_order, c)
    /\ UNCHANGED clock

\* a task calls acquire() (81-91): asyncio.Lock gives the lock at once when
\* it is free and nobody waits, and queues the caller otherwise
Acquire(c) ==
    /\ rl_pc[c] = "idle"
    /\ IF rl_lock = 0 /\ rl_waiters = <<>>
       THEN Evaluate(c) /\ UNCHANGED rl_waiters
       ELSE /\ rl_waiters' = Append(rl_waiters, c)
            /\ rl_pc' = [rl_pc EXCEPT ![c] = "waiting"]
            /\ UNCHANGED <<last_time, rl_lock, wake_at, grants>>
    /\ rl_order' = Append(rl_order, c)
    /\ UNCHANGED clock

\* the released lock goes to the first waiter
LockWake(c) ==
    /\ rl_pc[c] = "waiting"
    /\ rl_lock = 0
    /\ rl_waiters # <<>>
    /\ Head(rl_waiters) = c
    /\ rl_waiters' = Tail(rl_waiters)
    /\ Evaluate(c)
    /\ UNCHANGED <<clock, rl_order>>

\* asyncio.sleep(wait_time) returns: not before its delay has passed
SleepDone(c) ==
    /\ rl_pc[c] = "sleeping"
    /\ clock >= wake_at[c]
    /\ Grant(c)
    /\ wake_at' = [wake_at EXCEPT ![c] = 0]
    /\ UNCHANGED <<clock, rl_waiters, rl_order>>

\* PreciseRateLimiter(rate, interval) (67-79) and NumCallers tasks; the
\* limiter may have been built some time before the first call
InitLimiter ==
    /\ clock \in 0 .. TokenTime
    /\ last_time = 0
    /\ rl_lock = 0
    /\ rl_waiters = <<>>
    /\ rl_pc = [c \in 1 .. NumCallers |-> "idle"]
    /\ wake_at = [c \in 1 .. NumCallers |-> 0]
    /\ grants = <<>>
    /\ rl_order = <<>>
    /\ NoMonitor
    /\ NoBatch
    /\ NoDownload
    /\ NoStreamer

NextLimiter ==
    \/ Tick /\ UNCHANGED <<rmVars, caVars, pfVars, dlVars, tarVars, ddVars, stVars>>
    \/ \E c \in Callers : Acquire(c) /\ UNCHANGED <<rmVars, caVars, pfVars, dlVars, tarVars, ddVars, stVars>>
    \/ \E c \in Callers : LockWake(c) /\ UNCHANGED <<rmVars, caVars, pfVars, dlVars, tarVars, ddVars, stVars>>
    \/ \E c \in Callers : SleepDone(c) /\ UNCHANGED <<rmVars, caVars, pfVars, dlVars, tarVars, ddVars, stVars>>

SpecLimiter == InitLimiter /\ [][NextLimiter]_vars

(***************************************************************************)
(* RateMonitor (sec/utils.py 125-189), used by tasks that record a request *)
(* with add_request and then read the rates with get_current_rates.        *)
(***************************************************************************)
MonitorTasks == DOMAIN rm_pc

\* lines 162-163 and 177-178: the samples older than the window are dropped
\* from the left
RECURSIVE Purge(_, _)
Purge(q, now) ==
    IF q # <<>> /\ Head(q) < now - WindowSize THEN Purge(Tail(q), now) ELSE q

\* `async with self._lock` of add_request (159) entered
RmLock(c) ==
    /\ rm_pc[c] = "idle"
    /\ rm_lock = 0
    /\ rm_lock' = c
    /\ rm_pc' = [rm_pc EXCEPT ![c] = "locked"]
    /\ UNCHANGED <<rm_requests, clock>>

\* add_request, lines 160-163, and the release of the lock
RmAddRequest(c) ==
    /\ rm_pc[c] = "locked"
    /\ rm_requests' = Purge(Append(rm_requests, clock), clock)
    /\ rm_lock' = 0
    /\ rm_pc' = [rm_pc EXCEPT ![c] = "added"]
    /\ UNCHANGED clock

\* get_current_rates (165-189): a plain function that takes no lock
RmGetCurrentRates(c) ==
    /\ rm_pc[c] = "added"
    /\ rm_requests' = Purge(rm_requests, clock)
    /\ rm_pc' = [rm_pc EXCEPT ![c] = "done"]
    /\ UNCHANGED <<rm_lock, clock>>

\* time passes
RmTick ==
    /\ clock < MaxClock
    /\ clock' = clock + 1
    /\ UNCHANGED rmVars

InitMonitor ==
    /\ clock = 0
    /\ last_time = 0
    /\ rl_lock = 0
    /\ rl_waiters = <<>>
    /\ rl_pc = <<>>
    /\ wake_at = <<>>
    /\ grants = <<>>
    /\ rl_order = <<>>
    /\ rm_requests = <<>>
    /\ rm_lock = 0
    /\ rm_pc = [c \in 1 .. NumCallers |-> "idle"]
    /\ ca_pc = "idle"
    /\ ca_todo = <<>>
    /\ ca_attempted = {}
    /\ ca_log = {}
    /\ NoPortfolio
    /\ NoBatch
    /\ NoDownload
    /\ NoStreamer

LimiterIdle ==
    UNCHANGED <<last_time, rl_lock, rl_waiters, rl_pc, wake_at, grants, rl_order,
                caVars, pfVars>>

NextMonitor ==
    \/ RmTick /\ LimiterIdle /\ UNCHANGED <<dlVars, tarVars, ddVars, stVars>>
    \/ \E c \in MonitorTasks :
          RmLock(c) /\ LimiterIdle /\ UNCHANGED <<dlVars, tarVars, ddVars, stVars>>
    \/ \E c \in MonitorTasks :
          RmAddRequest(c) /\ LimiterIdle /\ UNCHANGED <<dlVars, tarVars, ddVars, stVars>>
    \/ \E c \in MonitorTasks :
          RmGetCurrentRates(c) /\ LimiterIdle
              /\ UNCHANGED <<dlVars, tarVars, ddVars, stVars>>

SpecMonitor == InitMonitor /\ [][NextMonitor]_vars

(***************************************************************************)
(* Portfolio.filter_text, filter_xbrl and download_submissions             *)
(* (portfolio/portfolio.py 175-256).  The result of a filter is what the   *)
(* remote query returns: any list of accession numbers.  The lists are     *)
(* kept as the sets of their elements (line 198 itself goes through set).  *)
(***************************************************************************)
Accessions == 1 .. NumAccessions

\* lines 197-201 and 223-227: intersect when the attribute exists and is
\* truthy (a non-empty list), else take the new result as it is
Narrow(new_accession_numbers) ==
    IF pf_has /\ pf_accession_numbers # {}
    THEN pf_accession_numbers \cap new_accession_numbers
    ELSE new_accession_numbers

\* Portfolio.filter_text (175-201)
PfFilterText(new) ==
    /\ Len(pf_calls) < MaxFilters
    /\ pf_accession_numbers' = Narrow(new)
    /\ pf_has' = TRUE
    /\ pf_calls' = Append(pf_calls, [filter |-> "text", result |-> new])
    /\ UNCHANGED pf_filtered

\* Portfolio.filter_xbrl (203-227)
PfFilterXbrl(new) ==
    /\ Len(pf_calls) < MaxFilters
    /\ pf_accession_numbers' = Narrow(new)
    /\ pf_has' = TRUE
    /\ pf_calls' = Append(pf_calls, [filter |-> "xbrl", result |-> new])
    /\ UNCHANGED pf_filtered

\* Portfolio.download_submissions, line 256: the filter handed to the
\* downloader is the attribute, or None when no filter was ever applied
PfDownloadSubmissions ==
    /\ pf_filtered' = IF pf_has
                      THEN [called |-> TRUE, given |-> TRUE, ids |-> pf_accession_numbers]
                      ELSE [called |-> TRUE, given |-> FALSE, ids |-> {}]
    /\ UNCHANGED <<pf_has, pf_accession_numbers, pf_calls>>

PortfolioOnly ==
    UNCHANGED <<clock, last_time, rl_lock, rl_waiters, rl_pc, wake_at, grants,
                rl_order, rmVars, caVars, dlVars, tarVars, ddVars, stVars>>

InitPortfolio ==
    /\ NoBatch
    /\ NoLimiter
    /\ NoDownload
    /\ NoStreamer

NextPortfolio ==
    \/ \E new \in SUBSET Accessions : PfFilterText(new) /\ PortfolioOnly
    \/ \E new \in SUBSET Accessions : PfFilterXbrl(new) /\ PortfolioOnly
    \/ PfDownloadSubmissions /\ PortfolioOnly

SpecPortfolio == InitPortfolio /\ [][NextPortfolio]_vars

(***************************************************************************)
(* format_accession (utils/format_accession.py) and Downloader.download    *)
(* (downloader.py 387-436).  A string is a sequence of characters; an      *)
(* integer is kept as its decimal numeral, so that an eighteen digit       *)
(* number is a value like any other.                                       *)
(***************************************************************************)
\* the width of zfill at line 48
AccessionWidth == 18

Zeros(n) == [k \in 1 .. n |-> "0"]

\* the filings of the model: each with its decimal numeral and with its
\* eighteen digits written out
Filings ==
    { [numeral |-> <<"7">>,
       digits  |-> Zeros(17) \o <<"7">>],
      [numeral |-> <<"7", "0">>,
       digits  |-> Zeros(16) \o <<"7", "0">>],
      [numeral |-> <<"1", "2", "3", "4", "5", "6", "7", "8", "9",
                     "0", "1", "2", "3", "4", "5", "6", "7", "8">>,
       digits  |-> <<"1", "2", "3", "4", "5", "6", "7", "8", "9",
                     "0", "1", "2", "3", "4", "5", "6", "7", "8">>] }

\* the standard form XXXXXXXXXX-XX-XXXXXX of eighteen digits
Dashed(d) == SubSeq(d, 1, 10) \o <<"-">> \o SubSeq(d, 11, 12) \o <<"-">>
                 \o SubSeq(d, 13, 18)

\* the ways a caller may write one filing: as an integer, as the digits of
\* that integer, as eighteen digits, and in the standard dashed form
Forms(f) ==
    { [type |-> "int", text |-> f.numeral],
      [type |-> "str", text |-> f.numeral],
      [type |-> "str", text |-> f.digits],
      [type |-> "str", text |-> Dashed(f.digits)] }

\* str(accession)
str(a) == a.text

\* .replace('-', '')
RECURSIVE replace_dash(_)
replace_dash(s) ==
    IF s = <<>> THEN <<>>
    ELSE IF Head(s) = "-" THEN replace_dash(Tail(s))
    ELSE <<Head(s)>> \o replace_dash(Tail(s))

\* str(int(s)) of a string of digits: the numeral without leading zeros
RECURSIVE str_int(_)
str_int(s) ==
    IF Len(s) <= 1 THEN s
    ELSE IF Head(s) = "0" THEN str_int(Tail(s))
    ELSE s

\* .zfill(width)
zfill(s, width) ==
    IF Len(s) >= width THEN s
    ELSE Zeros(width - Len(s)) \o s

\* format_accession(accession, 'no-dash') (47-48)
format_accession(a) ==
    zfill(str_int(replace_dash(str(a))), AccessionWidth)

\* f"{self.BASE_URL}{...}.sgml" (414)
Url(a) == <<"BASE_URL">> \o format_accession(a) \o <<".sgml">>

Range(s) == {s[k] : k \in DOMAIN s}

\* list(urls): the list as it is
list_set_Keep(us) == {us}

\* list(set(urls)) (418): the distinct urls, in the order the set gives
list_set(us) ==
    {l \in [1 .. Cardinality(Range(us)) -> Range(us)] : Range(l) = Range(us)}

\* line 407
DdStart ==
    /\ dd_pc = "start"
    /\ dd_pc' = IF api_key THEN "loop" ELSE "raised"
    /\ UNCHANGED <<accession_numbers, dd_filing, dd_made, dd_urls>>
    /\ UNCHANGED <<fa_filing, fa_value, fa_formats>>

\* one turn of the loop of lines 412-415
DdFormat ==
    /\ dd_pc = "loop"
    /\ Len(dd_made) < Len(accession_numbers)
    /\ LET url == Url(accession_numbers[Len(dd_made) + 1])
       IN  /\ dd_urls' = Append(dd_urls, url)
           /\ dd_made' = Append(dd_made, url)
    /\ UNCHANGED <<dd_pc, accession_numbers, dd_filing>>
    /\ UNCHANGED <<fa_filing, fa_value, fa_formats>>

\* lines 417-432: deduplicate, return when nothing is left, or hand the
\* list to process_batch
DdHandOver ==
    /\ dd_pc = "loop"
    /\ Len(dd_made) = Len(accession_numbers)
    /\ dd_urls' \in list_set(dd_urls)
    /\ dd_pc' = IF dd_urls' = <<>> THEN "returned" ELSE "process_batch"
    /\ UNCHANGED <<accession_numbers, dd_filing, dd_made>>
    /\ UNCHANGED <<fa_filing, fa_value, fa_formats>>

\* a call of download with a list of at most MaxList accessions
InitDownload ==
    /\ dd_pc = "start"
    /\ \E n \in 0 .. MaxList :
         \E fs \in [1 .. n -> Filings] :
           /\ dd_filing = fs
           /\ accession_numbers \in
                {l \in [1 .. n -> UNION {Forms(f) : f \in Filings}] :
                    \A k \in 1 .. n : l[k] \in Forms(fs[k])}
    /\ dd_made = <<>>
    /\ dd_urls = <<>>
    /\ fa_filing = <<>>
    /\ fa_value = <<>>
    /\ fa_formats = <<>>
    /\ TargetsInit(0, "pending")
    /\ api_key \in BOOLEAN
    /\ pb_pc = "unused"
    /\ NoTar
    /\ NoLimiter
    /\ NoStreamer

NextDownload ==
    \/ DdStart /\ UNCHANGED <<dlVars, tarVars, rlVars, stVars>>
    \/ DdFormat /\ UNCHANGED <<dlVars, tarVars, rlVars, stVars>>
    \/ DdHandOver /\ UNCHANGED <<dlVars, tarVars, rlVars, stVars>>

SpecDownload == InitDownload /\ [][NextDownload]_vars

(***************************************************************************)
(* SpecFormat: format_accession called on an accession, and again on what  *)
(* it returned.                                                            *)
(***************************************************************************)
\* lines 45-46 with the last slice starting one character late
format_dash_LateSlice(a) ==
    LET d == zfill(str_int(replace_dash(str(a))), AccessionWidth)
    IN  [type |-> "str",
         text |-> SubSeq(d, 1, 10) \o <<"-">> \o SubSeq(d, 11, 12) \o <<"-">>
                      \o SubSeq(d, 14, Len(d))]

\* format_accession(accession, 'dash') (44-46)
format_dash(a) ==
    LET d == zfill(str_int(replace_dash(str(a))), AccessionWidth)
    IN  [type |-> "str",
         text |-> SubSeq(d, 1, 10) \o <<"-">> \o SubSeq(d, 11, 12) \o <<"-">>
                      \o SubSeq(d, 13, Len(d))]

\* format_accession(accession, 'int') (42-43)
format_int(a) == [type |-> "int", text |-> str_int(replace_dash(str(a)))]

\* format_accession(accession, format) (42-51)
format_accession_as(a, format) ==
    IF format = "int" THEN format_int(a)
    ELSE IF format = "dash" THEN format_dash(a)
    ELSE IF format = "no-dash" THEN [type |-> "str", text |-> format_accession(a)]
    ELSE [type |-> "ValueError", text |-> <<>>]

\* the filings of the model, the accession zero and one whose numeral ends
\* in zeros
FormatFilings ==
    Filings \cup {[numeral |-> <<"0">>, digits |-> Zeros(AccessionWidth)],
                  [numeral |-> <<"1", "0", "0">>,
                   digits |-> Zeros(AccessionWidth - 3) \o <<"1", "0", "0">>]}

\* the forms of Forms, and the numeral written with some leading zeros, with
\* or without a dash
FormatForms(f) ==
    Forms(f) \cup (IF Len(f.numeral) + 2 <= AccessionWidth
                   THEN {[type |-> "str", text |-> <<"0", "0">> \o f.numeral],
                         [type |-> "str", text |-> <<"0", "-">> \o f.numeral]}
                   ELSE {})

\* one call of format_accession on the value at hand
FaApply(format) ==
    /\ Len(fa_formats) < MaxApply
    /\ fa_value.type # "ValueError"
    /\ fa_value' = format_accession_as(fa_value, format)
    /\ fa_formats' = Append(fa_formats, format)
    /\ UNCHANGED <<fa_filing, dd_pc, accession_numbers, dd_filing, dd_made,
                   dd_urls>>

InitFormat ==
    /\ fa_filing \in FormatFilings
    /\ fa_value \in FormatForms(fa_filing)
    /\ fa_formats = <<>>
    /\ dd_pc = "unused"
    /\ accession_numbers = <<>>
    /\ dd_filing = <<>>
    /\ dd_made = <<>>
    /\ dd_urls = <<>>
    /\ NoBatch
    /\ NoLimiter
    /\ NoStreamer

NextFormat ==
    \E format \in {"int", "dash", "no-dash", "other"} :
        FaApply(format) /\ UNCHANGED <<dlVars, tarVars, rlVars, stVars>>

SpecFormat == InitFormat /\ [][NextFormat]_vars

(***************************************************************************)
(* Streamer (sec/submissions/streamer.py).  The tasks of one event loop:   *)
(* a worker that can take an item from its queue does so before the loop   *)
(* looks at the network again, so a response or a finished download is     *)
(* taken up only when no such task is ready.  EFTSQuery, the parent class, *)
(* is described from the specification: query() puts the page requests in  *)
(* fetch_queue, starts the query workers, waits for fetch_queue to be      *)
(* joined and cancels the workers.                                         *)
(***************************************************************************)
\* range(5) at line 342
DocumentWorkers == 5

Pages == DOMAIN page_pc
Docs == DOMAIN doc_pc

\* the filings the search may return
HitFilings == {1, 2}

\* an accession number as text: of a filing, written with or without dashes
Accno(f, dashed) == [filing |-> f, dashed |-> dashed]

\* a hit of the search API: well formed, or with a value of another type
\* where lines 184-187 expect a dict, a list or a string (TypeError,
\* AttributeError).  A hit without the keys read there (KeyError,
\* IndexError, caught at 202) is treated as a hit that the lists exclude.
Hits == {[kind |-> "hit", filing |-> f] : f \in HitFilings}
            \cup {[kind |-> "broken", filing |-> 0]}

\* the lists a caller may give: none, or the filing 1 in one of its forms
NoList == [given |-> FALSE, ids |-> {}]
Lists == {NoList} \cup {[given |-> TRUE, ids |-> {Accno(1, d)}] : d \in BOOLEAN}

\* line 187: hit['_id'].split(':')[0]
accno_w_dash(h) == Accno(h.filing, TRUE)

\* line 188: accno_w_dash.replace('-', '')
accno_no_dash(h) == [accno_w_dash(h) EXCEPT !.dashed = FALSE]

\* line 194
InSkipList(h) ==
    skip_accession_numbers.given /\ accno_no_dash(h) \in skip_accession_numbers.ids

\* line 191
NotInAllowList(h) ==
    st_accession_numbers.given /\ accno_w_dash(h) \notin st_accession_numbers.ids

\* _construct_submission_url (182-205): a url, (None, None, None), or an
\* exception that the except clause of line 202 does not catch
construct_submission_url(h) ==
    IF h.kind = "broken" THEN "raise"
    ELSE IF NotInAllowList(h) THEN "none"
    ELSE IF InSkipList(h) THEN "none"
    ELSE "url"

\* the hits the loop of line 280 gets through
Processed(hs) ==
    {k \in DOMAIN hs : \A j \in 1 .. k : construct_submission_url(hs[j]) # "raise"}

CallbackRaises(hs) == Processed(hs) # DOMAIN hs

\* the hits put in document_queue (282-289)
Enqueued(hs) == {k \in Processed(hs) : construct_submission_url(hs[k]) = "url"}

\* the hits counted at lines 290-292
Skipped(hs) ==
    {k \in Processed(hs) : construct_submission_url(hs[k]) = "none"
                              /\ st_accession_numbers.given}

QueryBusy == {p \in Pages : page_pc[p] \in {"fetching", "joining", "resuming"}}
DocBusy == {d \in Docs : doc_pc[d] = "downloading"}

\* asyncio.Event.wait(): returns at once when the event is set
EventWait(event) == event

\* line 357, and document_queue.join() in general
JoinReturns == doc_unfinished = 0

\* a query worker is at the top of its loop and a page request waits
CanFetch ==
    /\ st_pc = "query_join"
    /\ fetch_queue # <<>>
    /\ Cardinality(QueryBusy) < NumQueryWorkers

\* a document worker is at the top of its loop and a target waits
CanDownload ==
    /\ st_pc \in {"query", "query_join", "after_query"}
    /\ document_queue # <<>>
    /\ Cardinality(DocBusy) < DocumentWorkers

QueryFinished ==
    /\ st_pc = "query_join"
    /\ \A p \in Pages : page_pc[p] = "done"

\* lines 354-357: the join is made only when download_in_progress is set
StreamContinues ==
    /\ st_pc = "after_query"
    /\ download_in_progress => JoinReturns

\* some task of the loop can run without waiting for the network.  A
\* callback woken from its join is not among them: a response the loop
\* has already taken up runs before it.
Ready ==
    \/ st_pc \in {"new", "query"}
    \/ CanFetch
    \/ CanDownload
    \/ QueryFinished
    \/ StreamContinues

\* stream() up to the call of query (340-351)
StStream ==
    /\ st_pc = "new"
    /\ st_pc' = "query"
    /\ documents_processed' = 0
    /\ total_documents' = 0
    /\ skipped_documents' = 0
    /\ UNCHANGED <<stConf, last_hits, printed, fetch_queue, page_pc,
                   document_queue, doc_unfinished, doc_pc, query_paused,
                   download_in_progress, document_pbar>>

\* EFTSQuery.query: the page requests are queued and the workers started
Query ==
    /\ st_pc = "query"
    /\ st_pc' = "query_join"
    /\ fetch_queue' = [p \in 1 .. NumPages |-> p]
    /\ page_pc' = [p \in Pages |-> "queued"]
    /\ UNCHANGED <<stConf, last_hits, printed, document_queue,
                   doc_unfinished, doc_pc, query_paused, download_in_progress,
                   document_pbar, documents_processed, total_documents,
                   skipped_documents>>

\* EFTSQuery.query: fetch_queue is joined, the workers are cancelled
QueryReturn ==
    /\ QueryFinished
    /\ st_pc' = "after_query"
    /\ UNCHANGED <<stConf, last_hits, printed, fetch_queue, page_pc,
                   document_queue, doc_unfinished, doc_pc, query_paused,
                   download_in_progress, document_pbar, documents_processed,
                   total_documents, skipped_documents>>

\* _fetch_worker, lines 139-148: the pause check, the page request taken
\* from fetch_queue and sent
FwGet(p) ==
    /\ CanFetch
    /\ query_paused => EventWait(query_paused)
    /\ p = Head(fetch_queue)
    /\ fetch_queue' = Tail(fetch_queue)
    /\ page_pc' = [page_pc EXCEPT ![p] = "fetching"]
    /\ UNCHANGED <<st_pc, stConf, last_hits, printed, document_queue,
                   doc_unfinished, doc_pc, query_paused, download_in_progress,
                   document_pbar, documents_processed, total_documents,
                   skipped_documents>>

\* document_download_callback (257-295) for the hits hs of page p, up to
\* document_queue.join() or to the exception that ends it
Callback(p, hs) ==
    LET IsEnqueued(d) == d[2] \in Enqueued(hs) IN
    /\ document_pbar' = (document_pbar \/ ~quiet)
    /\ total_documents' = total_documents + Cardinality(Enqueued(hs))
    /\ skipped_documents' = skipped_documents + Cardinality(Skipped(hs))
    /\ document_queue' =
          document_queue \o SelectSeq([k \in DOMAIN hs |-> <<p, k>>], IsEnqueued)
    /\ doc_pc' = [d \in Docs |->
                    IF d[1] = p /\ d[2] \in Enqueued(hs)
                    THEN "queued" ELSE doc_pc[d]]
    /\ doc_unfinished' = doc_unfinished + Cardinality(Enqueued(hs))
    /\ IF CallbackRaises(hs)
       THEN \* the exception is caught at line 156: the events stay set
            /\ query_paused' = TRUE
            /\ download_in_progress' = TRUE
            /\ page_pc' = [page_pc EXCEPT ![p] = "done"]
       ELSE IF doc_unfinished' = 0
       THEN \* join returns at once: lines 298-301 and 155
            /\ query_paused' = FALSE
            /\ download_in_progress' = FALSE
            /\ page_pc' = [page_pc EXCEPT ![p] = "done"]
       ELSE /\ query_paused' = TRUE
            /\ download_in_progress' = TRUE
            /\ page_pc' = [page_pc EXCEPT ![p] = "joining"]

\* _fetch_worker, lines 148-159: the response of the search API
FwResponse(p) ==
    /\ ~Ready
    /\ page_pc[p] = "fetching"
    /\ \/ \E n \in 0 .. PageSize : \E hs \in [1 .. n -> Hits] :
            /\ last_hits' = [page |-> p, hits |-> hs]
            /\ Callback(p, hs)
       \/ \* _fetch_json raises, or the answer has no hits
          /\ page_pc' = [page_pc EXCEPT ![p] = "done"]
          /\ UNCHANGED <<last_hits, document_queue, doc_unfinished, doc_pc,
                         query_paused, download_in_progress, document_pbar,
                         total_documents, skipped_documents>>
    /\ UNCHANGED <<st_pc, stConf, printed, fetch_queue, documents_processed>>

\* document_download_callback after the join (298-301), then line 155
FwResume(p) ==
    /\ page_pc[p] = "resuming"
    /\ query_paused' = FALSE
    /\ download_in_progress' = FALSE
    /\ page_pc' = [page_pc EXCEPT ![p] = "done"]
    /\ UNCHANGED <<st_pc, stConf, last_hits, printed, fetch_queue,
                   document_queue, doc_unfinished, doc_pc, document_pbar,
                   documents_processed, total_documents, skipped_documents>>

\* _document_download_worker, lines 223-228: a target taken and requested
DwGet(d) ==
    /\ CanDownload
    /\ d = Head(document_queue)
    /\ document_queue' = Tail(document_queue)
    /\ doc_pc' = [doc_pc EXCEPT ![d] = "downloading"]
    /\ UNCHANGED <<st_pc, stConf, last_hits, printed, fetch_queue, page_pc,
                   doc_unfinished, query_paused, download_in_progress,
                   document_pbar, documents_processed, total_documents,
                   skipped_documents>>

\* lines 240-242: the counter is advanced when the progress bar exists
Processed_Counted(bar) == IF bar THEN 1 ELSE 0

\* lines 229-248 without the task_done() of the except clause (248)
DwFinish_FailureNotDone(d) ==
    /\ ~Ready
    /\ st_pc # "done"
    /\ doc_pc[d] = "downloading"
    /\ \/ /\ doc_pc' = [doc_pc EXCEPT ![d] = "done"]
          /\ documents_processed' =
                documents_processed + Processed_Counted(document_pbar)
          /\ UNCHANGED printed
       \/ \* raise_for_status, the read or document_callback raises (245-248)
          /\ doc_pc' = [doc_pc EXCEPT ![d] = "failed"]
          /\ printed' = IF quiet THEN printed ELSE printed \cup {d}
          /\ UNCHANGED documents_processed
    /\ doc_unfinished' = IF doc_pc'[d] = "failed" THEN doc_unfinished
                          ELSE doc_unfinished - 1
    /\ page_pc' = [p \in Pages |->
                     IF doc_unfinished' = 0 /\ page_pc[p] = "joining"
                     THEN "resuming" ELSE page_pc[p]]
    /\ UNCHANGED <<st_pc, stConf, last_hits, fetch_queue, document_queue,
                   query_paused, download_in_progress, document_pbar,
                   total_documents, skipped_documents>>

\* _document_download_worker, lines 229-248: the download ends, well or
\* not, and the target is marked done; the last one wakes the joiners
DwFinish(d) ==
    /\ ~Ready
    /\ st_pc # "done"
    /\ doc_pc[d] = "downloading"
    /\ \/ /\ doc_pc' = [doc_pc EXCEPT ![d] = "done"]
          /\ documents_processed' =
                documents_processed + Processed_Counted(document_pbar)
          /\ UNCHANGED printed
       \/ \* raise_for_status, the read or document_callback raises (245-248)
          /\ doc_pc' = [doc_pc EXCEPT ![d] = "failed"]
          /\ printed' = IF quiet THEN printed ELSE printed \cup {d}
          /\ UNCHANGED documents_processed
    /\ doc_unfinished' = doc_unfinished - 1
    /\ page_pc' = [p \in Pages |->
                     IF doc_unfinished' = 0 /\ page_pc[p] = "joining"
                     THEN "resuming" ELSE page_pc[p]]
    /\ UNCHANGED <<st_pc, stConf, last_hits, fetch_queue, document_queue,
                   query_paused, download_in_progress, document_pbar,
                   total_documents, skipped_documents>>

\* stream() after query (353-375): the last join, the document workers
\* cancelled, the progress bar closed
StFinish ==
    /\ StreamContinues
    /\ st_pc' = "done"
    /\ document_pbar' = FALSE
    /\ UNCHANGED <<stConf, last_hits, printed, fetch_queue, page_pc,
                   document_queue, doc_unfinished, doc_pc, query_paused,
                   download_in_progress, documents_processed,
                   total_documents, skipped_documents>>

\* Streamer(...) followed by a call of stream()
InitStreamer ==
    /\ st_pc = "new"
    /\ quiet \in BOOLEAN
    /\ st_accession_numbers \in Lists
    /\ skip_accession_numbers \in Lists
    /\ StreamerInit
    /\ NoBatch
    /\ NoLimiter
    /\ NoDownload

NextStreamer ==
    \/ StStream /\ UNCHANGED <<dlVars, tarVars, rlVars, ddVars>>
    \/ Query /\ UNCHANGED <<dlVars, tarVars, rlVars, ddVars>>
    \/ QueryReturn /\ UNCHANGED <<dlVars, tarVars, rlVars, ddVars>>
    \/ StFinish /\ UNCHANGED <<dlVars, tarVars, rlVars, ddVars>>
    \/ \E p \in Pages : FwGet(p) /\ UNCHANGED <<dlVars, tarVars, rlVars, ddVars>>
    \/ \E p \in Pages : FwResponse(p) /\ UNCHANGED <<dlVars, tarVars, rlVars, ddVars>>
    \/ \E p \in Pages : FwResume(p) /\ UNCHANGED <<dlVars, tarVars, rlVars, ddVars>>
    \/ \E d \in Docs : DwGet(d) /\ UNCHANGED <<dlVars, tarVars, rlVars, ddVars>>
    \/ \E d \in Docs : DwFinish(d) /\ UNCHANGED <<dlVars, tarVars, rlVars, ddVars>>

SpecStreamer == InitStreamer /\ [][NextStreamer]_vars

(***************************************************************************)
(* SpecPause: stream() of a quiet Streamer without lists, where the event  *)
(* loop keeps running the tasks that can run and every request made is     *)
(* answered in the end.                                                    *)
(***************************************************************************)
InitPause ==
    /\ InitStreamer
    /\ quiet
    /\ st_accession_numbers = NoList
    /\ skip_accession_numbers = NoList

SpecPause == InitPause /\ [][NextStreamer]_vars /\ WF_vars(NextStreamer)

(***************************************************************************)
(* What a run leaves behind.                                               *)
(***************************************************************************)
Files(i) == 1 .. Len(archive[i])

RECURSIVE EntriesSize(_, _)
\* the bytes of the entries of `es` that belong to the records in `ts`
EntriesSize(es, ts) ==
    IF es = <<>> THEN 0
    ELSE (IF Head(es).rec \in ts THEN Head(es).size ELSE 0)
         + EntriesSize(Tail(es), ts)

\* the records whose write_submission returned True
Written == {t \in Targets : success[t]}

\* the records written into file f of shard i
FileRecords(i, f) ==
    {t \in Written : \E e \in 1 .. Len(archive[i][f].entries) :
                        archive[i][f].entries[e].rec = t}

\* serialized size of the records written into file f of shard i
FileSize(i, f) == EntriesSize(archive[i][f].entries, Written)

RecordInShard(t) ==
    \E i \in DOMAIN archive : \E f \in Files(i) : t \in FileRecords(i, f)

InErrorLog(t) == errors_json[t] # NoEntry

(***************************************************************************)
(* C1.  After process_batch every target has exactly one terminal outcome: *)
(* its record is in a shard or it has an entry in errors.json, never both  *)
(* and never neither.  Stated for the runs that have an API key.  The code *)
(* does not keep it: _log_error takes no lock, so the write of one thread  *)
(* can erase the entry another thread wrote after the first one's read.    *)
(***************************************************************************)
C1_ExactlyOneOutcome ==
    (pb_pc = "returned" /\ api_key) =>
        \A t \in Targets : RecordInShard(t) # InErrorLog(t)

(***************************************************************************)
(* C3.  Once a fetch got a 401 the run ends with a fatal error: it never   *)
(* comes to its normal end.  The code does not keep it: the ValueError of  *)
(* line 332 is caught at 338 and the run goes on to its normal end.        *)
(***************************************************************************)
C3_UnauthorizedIsFatal ==
    unauthorized => pb_pc \notin {"finally_ok", "returned"}

(***************************************************************************)
(* C6.  At the end of the run the progress counter equals the number of    *)
(* targets.  The code does not keep it: without an API key every task      *)
(* raises at line 297, before the try, and the counter is never advanced.  *)
(***************************************************************************)
C6_ProgressCountsEveryTarget ==
    pb_pc = "returned" => pbar = urls

(***************************************************************************)
(* C9.  When process_batch has returned or raised, no shard file handle,   *)
(* current or rolled over, is open.                                        *)
(***************************************************************************)
C9_NoHandleLeftOpen ==
    pb_pc \in {"returned", "raised"} =>
        \A i \in DOMAIN archive : \A f \in Files(i) : archive[i][f].closed

\* process_batch raised after a shard had rolled over and records were written
C9_Witness ==
    /\ pb_pc = "raised"
    /\ \E i \in DOMAIN archive : Len(archive[i]) >= 2 /\ FileRecords(i, 2) # {}


(***************************************************************************)
(* C4.  For every shard file, the serialized size of the records written   *)
(* into it is at most max_batch_size plus the size of one of its records:  *)
(* taking one record away brings the file within the ceiling.              *)
(***************************************************************************)
C4_FileWithinCeilingPlusOneRecord ==
    \A i \in DOMAIN archive : \A f \in Files(i) :
        \/ FileSize(i, f) <= MaxBatchSize
        \/ \E t \in FileRecords(i, f) :
              FileSize(i, f) - EntriesSize(archive[i][f].entries, {t})
                  <= MaxBatchSize

\* two records share a file that is full to the ceiling, and a record that
\* overflows the ceiling on its own sits in another file
C4_Witness ==
    \E i \in DOMAIN archive : \E f, g \in Files(i) :
        /\ Cardinality(FileRecords(i, f)) = 2
        /\ FileSize(i, f) = MaxBatchSize
        /\ FileSize(i, g) > MaxBatchSize

(***************************************************************************)
(* C5.  Rollover.  As claimed: whenever a write_submission that got the    *)
(* lock would take the shard's cumulative size above max_batch_size, the   *)
(* shard moves to the next sequence number with its size reset to zero.    *)
(* This fails for a record larger than the ceiling that arrives at an      *)
(* empty file: line 145 asks for tar_sizes > 0, and the record is written  *)
(* into the current file.                                                  *)
(***************************************************************************)
\* write_submission of t has taken the lock and is past lines 145-153
PastRollover(t) == tpc[t] = "ws_begin" /\ tpc'[t] = "ws_try"

C5_RolloverWheneverAbove ==
    [][\A t \in Targets :
          LET i == get_tar_index(t) IN
          (PastRollover(t)
             /\ tar_sizes[i] + submission_size(rec[t]) > MaxBatchSize)
          => /\ tar_sequences'[i] = tar_sequences[i] + 1
             /\ tar_sizes'[i] = 0]_vars

(***************************************************************************)
(* C5 as amended.  When a write_submission finds the shard's cumulative    *)
(* size positive and the record would take it above max_batch_size, the    *)
(* current file is closed, the sequence number grows by exactly one, the   *)
(* size is reset to zero and the handle is a new, empty, open file of that *)
(* sequence number; in every other case (the record fits, or the file is   *)
(* empty) the shard is left as it is and the record goes into the current  *)
(* file.  When closing or opening fails at a rollover the call raises, the *)
(* sequence number grows by at most one, the size is not reset and nothing *)
(* is written.  The size decreases only in a step that increases the       *)
(* sequence number; a closed file never changes again, and entries are     *)
(* only added to the file of the shard's current sequence number.          *)
(***************************************************************************)
C5_RolloverStep(t) ==
    LET i == get_tar_index(t)
        h == tar_files[i]
        g == tar_files'[i]
    IN
    IF tar_sizes[i] > 0 /\ tar_sizes[i] + submission_size(rec[t]) > MaxBatchSize
    THEN /\ archive'[i][h].closed
         /\ tar_sequences'[i] = tar_sequences[i] + 1
         /\ tar_sizes'[i] = 0
         /\ g = Len(archive[i]) + 1
         /\ Len(archive'[i]) = g
         /\ archive'[i][g] = [seq |-> tar_sequences[i] + 1,
                              closed |-> FALSE, entries |-> <<>>]
    ELSE /\ tar_sequences'[i] = tar_sequences[i]
         /\ tar_sizes'[i] = tar_sizes[i]
         /\ g = h
         /\ archive'[i] = archive[i]

C5_FailedRolloverStep(t) ==
    LET i == get_tar_index(t) IN
    /\ tar_sequences'[i] \in {tar_sequences[i], tar_sequences[i] + 1}
    /\ tar_sizes'[i] = tar_sizes[i]
    /\ tar_files'[i] = tar_files[i]
    /\ tar_locks'[i] = tar_locks[i]
    /\ \A f \in Files(i) : archive'[i][f].entries = archive[i][f].entries
    /\ Len(archive'[i]) = Len(archive[i])

C5_ShardStep(i) ==
    /\ tar_sizes'[i] < tar_sizes[i] =>
          tar_sequences'[i] = tar_sequences[i] + 1 /\ tar_sizes'[i] = 0
    /\ tar_sequences'[i] \in {tar_sequences[i], tar_sequences[i] + 1}
    /\ \A f \in Files(i) :
          /\ archive[i][f].closed => archive'[i][f] = archive[i][f]
          /\ archive'[i][f].entries # archive[i][f].entries =>
                f = tar_files[i] /\ archive[i][f].seq = tar_sequences[i]

C5_Rollover ==
    [][/\ \A t \in Targets : PastRollover(t) => C5_RolloverStep(t)
       /\ \A t \in Targets :
             (tpc[t] = "ws_begin" /\ tpc'[t] = "ws_raised") =>
                 C5_FailedRolloverStep(t)
       /\ \A i \in DOMAIN archive : C5_ShardStep(i)]_vars

\* a shard has rolled over and a record was written into its second file
C5_Witness ==
    \E i \in DOMAIN archive :
        /\ Len(archive[i]) >= 2
        /\ archive[i][1].closed
        /\ tar_sequences[i] = 2
        /\ archive[i][2].seq = 2
        /\ FileRecords(i, 1) # {}
        /\ FileRecords(i, 2) # {}

(***************************************************************************)
(* C10.  write_submission never propagates an exception to its caller.     *)
(* The code does not keep it: the serialization of the metadata (140-141)  *)
(* and the close and open of a rollover (147, 151) are outside the try of  *)
(* line 157.                                                               *)
(***************************************************************************)
C10_NeverRaises ==
    \A t \in Targets : tpc[t] # "ws_raised"


(***************************************************************************)
(* C7.  Any two consecutive grants of acquire() are at least               *)
(* interval / rate apart.                                                  *)
(***************************************************************************)
C7_GrantsSpaced ==
    \A k \in 1 .. (Len(grants) - 1) : grants[k + 1] - grants[k] >= TokenTime

\* every caller was granted; some grant came exactly one token time after
\* the one before it, while another caller was waiting for the lock
C7_Witness ==
    /\ Len(grants) = NumCallers
    /\ \E k \in 1 .. (Len(grants) - 1) : grants[k + 1] - grants[k] = TokenTime
    /\ \E k \in 1 .. (Len(grants) - 1) : grants[k + 1] - grants[k] > TokenTime


(***************************************************************************)
(* C8.  The url list handed to process_batch has no two entries for the    *)
(* same filing, whatever forms and repeats the accession list has.         *)
(***************************************************************************)
FilingsOf(u) == {dd_filing[k] : k \in {j \in DOMAIN dd_made : dd_made[j] = u}}

C8_OneEntryPerFiling ==
    dd_pc = "process_batch" =>
        \A p, q \in DOMAIN dd_urls :
            p # q => FilingsOf(dd_urls[p]) \cap FilingsOf(dd_urls[q]) = {}

\* a list that names one filing in two forms and another filing as well
C8_Witness ==
    /\ dd_pc = "process_batch"
    /\ Len(dd_urls) = 2
    /\ \E j, k \in DOMAIN accession_numbers :
         /\ dd_filing[j] = dd_filing[k]
         /\ accession_numbers[j].type = "int"
         /\ Len(accession_numbers[k].text) > AccessionWidth


(***************************************************************************)
(* C2.  Discovery backpressure: a query worker sends the request of a      *)
(* page only when no target of an earlier page is outstanding, that is,    *)
(* when every target put in document_queue has been marked done.           *)
(***************************************************************************)
C2_Backpressure ==
    [][\A p \in Pages :
         (page_pc[p] = "queued" /\ page_pc'[p] = "fetching")
            => doc_unfinished = 0]_vars


(***************************************************************************)
(* C11.  At every moment at most MAX_CONCURRENT_DOWNLOADS fetch tasks are  *)
(* in flight: between taking a slot of the semaphore and the end of the    *)
(* processing of the response.                                             *)
(***************************************************************************)
InFlight == {t \in Targets : tpc[t] \notin {"pending", "idle", "raised", "done"}}

C12_NoTargetAbandoned ==
    st_pc = "done" =>
        \A d \in Docs : doc_pc[d] \notin {"queued", "downloading"}


(***************************************************************************)
(* C13.  With both lists written in the dashed form, a hit is put in       *)
(* document_queue if and only if its accession number is in the allow-list *)
(* (when one is given) and not in the skip-list (when one is given).       *)
(* Stated for the hits of the latest page, up to the first hit that makes  *)
(* the callback raise.  The code does not keep it: the skip-list is        *)
(* compared with the accession number without dashes (line 194).           *)
(***************************************************************************)
ListsDashed ==
    \A a \in st_accession_numbers.ids \cup skip_accession_numbers.ids : a.dashed

Eligible(h) ==
    /\ st_accession_numbers.given =>
          Accno(h.filing, TRUE) \in st_accession_numbers.ids
    /\ skip_accession_numbers.given =>
          Accno(h.filing, TRUE) \notin skip_accession_numbers.ids

C13_EnqueuedIffListsAllow ==
    ListsDashed =>
        \A k \in DOMAIN last_hits.hits :
            (\A j \in 1 .. k : last_hits.hits[j].kind = "hit") =>
                (doc_pc[<<last_hits.page, k>>] # "none"
                    <=> Eligible(last_hits.hits[k]))


(***************************************************************************)
(* C14.  get_tar_index is a function of the identifier and the shard       *)
(* count alone: whatever step the run takes, the index of every            *)
(* identifier stays what it was, it lies in 0 .. num_tar_files - 1, and    *)
(* every entry of a record is in the shard of its identifier.              *)
(***************************************************************************)
C14_IndexInRange(t) ==
    /\ get_tar_index(t) \in 0 .. (num_tar_files - 1)
    /\ \A i \in DOMAIN archive : \A f \in Files(i) :
          \A e \in DOMAIN archive[i][f].entries :
              archive[i][f].entries[e].rec = t => i = get_tar_index(t)

Digits == {"0", "1", "2", "3", "4", "5", "6", "7", "8", "9"}

Completed == {d \in Docs : doc_pc[d] = "done"}

C16_CountsProcessed ==
    /\ documents_processed = Cardinality(Completed)
    /\ documents_processed <= total_documents


(***************************************************************************)
(* C17.  The updates of errors.json are mutually exclusive: an entry that  *)
(* a _log_error call has written is never removed by the write of another  *)
(* call, so every failure that was logged is in errors.json after the run. *)
(***************************************************************************)
C17_NoLoggedFailureLost ==
    [][\A t \in Targets : InErrorLog(t) => InErrorLog(t)']_vars


(***************************************************************************)
(* C18.  Under every interleaving of the pool threads, the entries of one  *)
(* record are contiguous in their shard file, metadata.json first, with no *)
(* entry of another record between them, and two calls that are writing    *)
(* at the same time are writing to different shards.                       *)
(***************************************************************************)
Writing == {t \in Targets : tpc[t] \in {"ws_try", "ws_docs"}}

Contiguous(es) ==
    \A a, b, c \in DOMAIN es :
        (a < b /\ b < c /\ es[a].rec = es[c].rec) => es[b].rec = es[a].rec

MetadataFirst(es) ==
    \A b \in DOMAIN es :
        es[b].kind = "document" => b > 1 /\ es[b - 1].rec = es[b].rec

C18_ShardWritesSerialized ==
    /\ \A i \in DOMAIN archive : \A f \in Files(i) :
          /\ Contiguous(archive[i][f].entries)
          /\ MetadataFirst(archive[i][f].entries)
    /\ \A t, u \in Writing : t # u => get_tar_index(t) # get_tar_index(u)
    /\ \A t \in Writing : tar_locks[get_tar_index(t)] = t

\* two calls are writing at the same time, to different shards, and one of
\* them behind the entries of another record in the same file
C18_Witness ==
    \E t, u \in Targets :
        /\ tpc[t] = "ws_docs"
        /\ tpc[u] = "ws_docs"
        /\ get_tar_index(t) # get_tar_index(u)
        /\ LET es == archive[get_tar_index(t)][tar_files[get_tar_index(t)]].entries
           IN  /\ Len(es) > 1
               /\ es[Len(es)].rec = t
               /\ es[Len(es) - 1].rec # t


(***************************************************************************)
(* C19.  In quiet and in non-quiet mode, every enqueued target whose       *)
(* download or document callback failed is recorded as failed, with its    *)
(* identifier and a reason (the printed line is taken as the record).      *)
(***************************************************************************)
C19_FailureRecorded ==
    \A d \in Docs : doc_pc[d] = "failed" => d \in printed


(***************************************************************************)
(* C20.  The reason "Failed to process file" is recorded only for a target *)
(* whose shard write failed: in the runs of SpecBadBody, where every       *)
(* failure of a pool job is a decompression or a parsing failure and no    *)
(* shard write is attempted, no target has that reason when process_batch  *)
(* has returned.                                                           *)
(***************************************************************************)
C20_ReasonTellsKind ==
    pb_pc = "returned" =>
        \A t \in Targets : errors_json[t] # "Failed to process file"


(***************************************************************************)
(* C21.  In the direct Downloader pool every HTTP GET of a target is       *)
(* preceded by a grant of the rate limiter to that task: there are at      *)
(* least as many grants as targets whose GET has been issued.              *)
(***************************************************************************)
Fetched == {t \in Targets : tpc[t] \notin {"pending", "idle", "raised"}}

C21_FetchAfterGrant == Cardinality(Fetched) <= Len(grants)


(***************************************************************************)
(* C22.  When every download completes or fails in the end: a target is    *)
(* outstanding in document_queue from its put until it is marked done,     *)
(* once, on success and on failure; every document_queue.join() of         *)
(* document_download_callback returns and the callback lifts the pause;    *)
(* and stream() gets to its end.                                           *)
(***************************************************************************)
Outstanding == {d \in Docs : doc_pc[d] \in {"queued", "downloading"}}

C22_PauseEnds ==
    /\ [](doc_unfinished = Cardinality(Outstanding))
    /\ \A p \in 1 .. NumPages :
          (page_pc[p] = "joining") ~> (page_pc[p] = "done" /\ ~query_paused)
    /\ <>(st_pc = "done")

\* a join has just returned, after a download that failed and one that
\* succeeded
C22_Witness ==
    \E p \in Pages :
        /\ page_pc[p] = "resuming"
        /\ doc_pc[<<p, 1>>] = "failed"
        /\ doc_pc[<<p, 2>>] = "done"


(***************************************************************************)
(* C23.  The grants of PreciseRateLimiter are serialized and first come,   *)
(* first served: at most one acquire() is between the read of the clock    *)
(* and the update of last_time, it holds the lock, and a caller is being   *)
(* evaluated or granted only when every caller that called acquire()       *)
(* before it has been granted.                                             *)
(***************************************************************************)
Evaluating == {c \in Callers : rl_pc[c] = "sleeping"}

C23_SerializedFifo ==
    /\ Cardinality(Evaluating) <= 1
    /\ \A c \in Evaluating : rl_lock = c
    /\ \A i, j \in DOMAIN rl_order :
          (i < j /\ rl_pc[rl_order[j]] \in {"sleeping", "granted"})
              => rl_pc[rl_order[i]] = "granted"

\* three callers have called acquire(): the first is granted, the second
\* sleeps with the lock, the third waits for the lock
C23_Witness ==
    /\ Len(rl_order) = 3
    /\ rl_pc[rl_order[1]] = "granted"
    /\ rl_pc[rl_order[2]] = "sleeping"
    /\ rl_pc[rl_order[3]] = "waiting"


(***************************************************************************)
(* C24.  Every mutation of the RateMonitor's sample window, the append and *)
(* the purge, in add_request and in get_current_rates, happens while       *)
(* RateMonitor._lock is held.                                              *)
(***************************************************************************)
C24_WindowMutatedUnderLock ==
    [][rm_requests' # rm_requests => rm_lock # 0]_vars


(***************************************************************************)
(* C25.  close_all never raises, and when it has returned the close of     *)
(* every shard's current handle has been attempted, whichever closes       *)
(* failed and were logged.                                                 *)
(***************************************************************************)
C25_EveryShardClosed ==
    /\ ca_pc # "raised"
    /\ ca_log \subseteq ca_attempted
    /\ ca_pc = "returned" =>
          \A i \in Shards : i \in ca_attempted /\ archive[i][tar_files[i]].closed

\* the close of the first shard failed and was logged, and the second
\* shard was closed all the same
C25_Witness ==
    /\ ca_pc = "returned"
    /\ num_tar_files = MAX_TAR_WORKERS
    /\ ca_log = {0}
    /\ ca_attempted = Shards


(***************************************************************************)
(* C26.  A write_submission call that reports failure leaves no entry of   *)
(* its record in the archive, so that, whenever no write is running on a   *)
(* shard, the shard's cumulative size is the total size of the entries in  *)
(* its current file.                                                       *)
(***************************************************************************)
C26_SizeIsSizeOfEntries ==
    \A i \in Shards :
        tar_locks[i] = 0 =>
            tar_sizes[i] = EntriesSize(archive[i][tar_files[i]].entries, Targets)


(***************************************************************************)
(* C27.  In Streamer, download_in_progress and query_paused are set        *)
(* whenever document_queue has unfinished targets, under every             *)
(* interleaving of the callbacks of the query workers.                     *)
(***************************************************************************)
C27_FlagsSetWhileOutstanding ==
    doc_unfinished > 0 => download_in_progress /\ query_paused


(***************************************************************************)
(* C28.  A shard file whose accounted size exceeds max_batch_size holds    *)
(* exactly one record: every file that holds two or more records has       *)
(* accounted size at most max_batch_size.  A rollover never happens on an  *)
(* empty file: every file that a rollover has closed holds at least one    *)
(* record.                                                                 *)
(***************************************************************************)
C28_OversizeOnlyAlone ==
    \A i \in DOMAIN archive : \A f \in Files(i) :
        /\ Cardinality(FileRecords(i, f)) >= 2 => FileSize(i, f) <= MaxBatchSize
        /\ FileSize(i, f) > MaxBatchSize => Cardinality(FileRecords(i, f)) = 1
        /\ archive[i][f].closed => FileRecords(i, f) # {}

\* a record larger than the ceiling sits alone in a file closed by a
\* rollover, and the shard's current file holds two records
C28_Witness ==
    \E i \in DOMAIN archive : \E f \in Files(i) :
        /\ archive[i][f].closed
        /\ Cardinality(FileRecords(i, f)) = 1
        /\ FileSize(i, f) > MaxBatchSize
        /\ Cardinality(FileRecords(i, tar_files[i])) = 2


(***************************************************************************)
(* C29.  In process_batch, once the finally clause is reached and          *)
(* close_all runs, no write_submission is in progress and none can start:  *)
(* every fetch task has ended (or, when a constructor raised before the    *)
(* gather, was never started), no job is queued for or running on the      *)
(* pool, and no shard lock is held; and after close_all the archive is     *)
(* never written again.  This covers the normal path and the path on       *)
(* which fetch tasks raised.                                               *)
(***************************************************************************)
TeardownBegun == pb_pc \in {"finally_ok", "finally_raise", "returned", "raised"}

\* tasks that have not ended: on the loop, queued for the pool or on it
Unfinished == {t \in Targets : tpc[t] \notin {"pending", "done", "raised"}}

C29_NoWriteAfterTeardown ==
    /\ [](TeardownBegun =>
            /\ Unfinished = {}
            /\ \A i \in Shards : tar_locks[i] = 0
            /\ (\E t \in Targets : tpc[t] = "pending") =>
                   (\A t \in Targets : tpc[t] = "pending"))
    /\ [][(pb_pc = "returned" \/ pb_pc = "raised") =>
             (tpc' = tpc /\ archive' = archive /\ tar_sizes' = tar_sizes)]_vars

\* the teardown is reached after two records were written on one shard's
\* files and their tasks ended
C29_Witness ==
    /\ pb_pc = "finally_ok"
    /\ Cardinality(Written) = 2
    /\ \A t \in Targets : tpc[t] = "done"


(***************************************************************************)
(* C30.  After any sequence of filter_text and filter_xbrl calls on one    *)
(* Portfolio, accession_numbers is a subset of the result of every filter  *)
(* applied so far, and so is the filter handed on by download_submissions. *)
(***************************************************************************)
C30_FiltersOnlyNarrow ==
    /\ \A k \in DOMAIN pf_calls : pf_accession_numbers \subseteq pf_calls[k].result
    /\ (pf_filtered.given /\ pf_filtered.ids = pf_accession_numbers) =>
           \A k \in DOMAIN pf_calls : pf_filtered.ids \subseteq pf_calls[k].result

====
